---- MODULE Spec2Model ----
(***************************************************************************)
(* Model of the pyDeauther attack orchestrator (src/src/pyDeauther.py)     *)
(* running on top of the CommandManager (src/src/lib/command_runner.py).   *)
(*                                                                         *)
(* Every Python handler (a frontend command or a process completion        *)
(* callback) runs to completion on the Qt main thread, so each handler is  *)
(* one atomic action.  Handlers are written as operators over a record `s` *)
(* holding the module globals, the handle table of the CommandManager and  *)
(* the sqlite tables; an action applies the handler to the current state   *)
(* and commits the result.                                                 *)
(*                                                                         *)
(* BSSIDs and client MACs are modelled by small integers whose order is    *)
(* the lexicographic order of the MAC strings.                             *)
(***************************************************************************)
EXTENDS Integers, Sequences, FiniteSets, TLC

\* ---------------------------------------------------------------- bounds
\* Spec: the runs on which the confirmed properties are checked
MaxProcs  == 6      \* handles the CommandManager may allocate in one run
MaxCmds   == 2      \* frontend commands (scan, stop_attack) in one run
MaxLoop   == 2      \* largest configured max_attack_loop
NumBssid  == 1      \* network BSSIDs 1..NumBssid
NumClient == 1      \* client MACs 1..NumClient
NumWhite  == 1      \* BSSIDs 1..NumWhite may be on the whitelist

\* SpecWide: longer runs over more networks, for the scenarios that need
\* a stop_attack between two scans or two networks in a pass
WideProcs  == 9
WideCmds   == 3
WideLoop   == 2
WideBssid  == 2
WideClient == 1
WideWhite  == 1

\* SpecEdit: one cycle during which the whitelist is edited and saved
EditProcs  == 6
EditCmds   == 1
EditLoop   == 1
EditBssid  == 1
EditClient == 1
EditWhite  == 1

\* SpecDeep: two overlapping cycles over two networks, followed further
DeepProcs  == 11
DeepCmds   == 2
DeepLoop   == 1
DeepBssid  == 2
DeepClient == 1
DeepWhite  == 0

\* SpecList: one cycle over two networks with whitelist edits
ListProcs  == 6
ListCmds   == 1
ListLoop   == 1
ListBssid  == 2
ListClient == 1
ListWhite  == 2

\* SpecLive: one scan command, no stop_attack, every command completes
LiveProcs  == 8
LiveCmds   == 1
LiveLoop   == 2
LiveBssid  == 1
LiveClient == 1
LiveWhite  == 0

\* SpecOut: the orchestrator with the output of its capture commands
OutProcs   == 5
OutCmds    == 1
OutLoop    == 1
OutBssid   == 1
OutClient  == 0
OutWhite   == 0

\* SpecStop: a scan command followed by two stop_attack commands
StopProcs  == 6
StopCmds   == 3
StopLoop   == 1
StopBssid  == 1
StopClient == 1
StopWhite  == 0

\* SpecExit: completions that report an exit code
ExitProcs  == 6
ExitCmds   == 1
ExitLoop   == 1
ExitBssid  == 1
ExitClient == 1
ExitWhite  == 0

\* SpecThread: calls of feed from the GUI thread and from a worker thread
ThreadMaxFeeds == 3

\* SpecKill: the configured deauth_count ranges over 0..KillMaxCount
KillMaxCount == 30

\* SpecMgr: the CommandManager driven through its API by any caller
MgrProcs   == 2      \* calls of run

\* SpecHud: feeds and resets of the aggregator, and its max_lines
HudMaxFeeds == 3
HudMaxLines == 2

Channels   == {-1, 1, 2}       \* channel column values a scan may produce
NULL       == 0                \* SQL NULL / Python None

VARIABLES
    allow_attack,    \* pyDeauther.py:68
    wifiState,       \* pyDeauther.py:70
    currentNet,      \* pyDeauther.py:63
    currentClient,   \* pyDeauther.py:64
    attackLoop,      \* pyDeauther.py:65
    maxAttackLoop,   \* pyDeauther.py:66
    lastChannel,     \* pyDeauther.py:67
    scannerProc,     \* pyDeauther.py:69 (handle id, NULL for None)
    procs,           \* CommandManager._procs: handle id -> handle
    networks,        \* table networks(bssid, channel)
    clients,         \* table clients(client_bssid, associated_network)
    whitelist,       \* whitelisted bssids
    cfgMaxLoop,      \* settings value max_attack_loop
    air,             \* networks and clients on the air (capture content)
    cmds,            \* number of frontend commands received (bounds the run)
    lim,             \* the bounds of this run: [procs, cmds, white]
    selLog,          \* history: Select network queries of the last handler
    event,           \* history: the handler that ran last
    stopped,         \* history: a stop_attack was handled, no scan since
    stopMark,        \* history: number of handles when stop_attack last ran
    pass,            \* history: broadcasts issued in the current pass
    passDone,        \* history: the pass that the last handler completed
    mgr,             \* SpecMgr: QProcess states, callbacks invoked, last call
    hist,            \* history: last completed broadcast, channel tuned to
    inv,             \* SpecInv: a request and the invocation built for it;
                     \* SpecKill: a deauth_count and the kill timeouts
    hud              \* SpecHud: the HudStreamAggregator

vars == <<allow_attack, wifiState, currentNet, currentClient, attackLoop,
          maxAttackLoop, lastChannel, scannerProc, procs, networks, clients,
          whitelist, cfgMaxLoop, air, cmds, lim, selLog, event, stopped, stopMark,
          pass, passDone, mgr, hist, inv, hud>>

\* --------------------------------------------------------- state record
Cur ==
    [allow_attack |-> allow_attack, wifiState |-> wifiState,
     currentNet |-> currentNet, currentClient |-> currentClient,
     attackLoop |-> attackLoop, maxAttackLoop |-> maxAttackLoop,
     lastChannel |-> lastChannel, scannerProc |-> scannerProc,
     procs |-> procs, networks |-> networks, clients |-> clients,
     whitelist |-> whitelist, cfgMaxLoop |-> cfgMaxLoop,
     selLog |-> <<>>, raised |-> FALSE]

Commit(r) ==
    /\ allow_attack' = r.allow_attack
    /\ wifiState' = r.wifiState
    /\ currentNet' = r.currentNet
    /\ currentClient' = r.currentClient
    /\ attackLoop' = r.attackLoop
    /\ maxAttackLoop' = r.maxAttackLoop
    /\ lastChannel' = r.lastChannel
    /\ scannerProc' = r.scannerProc
    /\ procs' = r.procs
    /\ networks' = r.networks
    /\ clients' = r.clients
    /\ whitelist' = r.whitelist
    /\ selLog' = r.selLog
    /\ Len(r.procs) <= lim.procs

\* ------------------------------------------------------ CommandManager
\* A handle: the command it runs (kind and arguments), whether the QProcess
\* is still running and whether kill() was called on it while running.
Handle(kind, mode, bssid, channel, client) ==
    [kind |-> kind, mode |-> mode, bssid |-> bssid, channel |-> channel,
     client |-> client, running |-> TRUE, killed |-> FALSE]

\* run with an id generator that does not advance
run_sameid(s, h) ==
    [s EXCEPT !.procs = IF @ = <<>> THEN <<h>>
                        ELSE [@ EXCEPT ![Len(@)] = h]]

\* CommandManager.run: allocate the next id, register and start the process.
run(s, h) == [s EXCEPT !.procs = Append(@, h)]

\* ProcHandle.kill: QProcess.kill() only acts on a running process.
kill(s, id) ==
    IF s.procs[id].running
    THEN [s EXCEPT !.procs[id].killed = TRUE]
    ELSE s

\* CommandManager.get: the empty set stands for None
get(s, pid) ==
    IF pid \in DOMAIN s.procs THEN {s.procs[pid]} ELSE {}

\* CommandManager.kill: False for an unknown id, else h.kill() and True
CommandManager_kill(s, pid) ==
    IF get(s, pid) = {}
    THEN [state |-> s, ret |-> FALSE]
    ELSE [state |-> kill(s, pid), ret |-> TRUE]

\* ProcHandle.terminate: QProcess.terminate() only acts on a running
\* process; s.termed are the handles that were sent the request
terminate(s, id) ==
    IF s.procs[id].running
    THEN [s EXCEPT !.termed = @ \cup {id}]
    ELSE s

\* CommandManager.terminate
CommandManager_terminate(s, pid) ==
    IF get(s, pid) = {}
    THEN [state |-> s, ret |-> FALSE]
    ELSE [state |-> terminate(s, pid), ret |-> TRUE]

\* CommandManager.kill_all: kill every handle that is_running()
kill_all(s) ==
    [s EXCEPT !.procs =
        [i \in DOMAIN @ |-> IF @[i].running
                            THEN [@[i] EXCEPT !.killed = TRUE]
                            ELSE @[i]]]

\* ----------------------------------------------------------- queries
\* ORDER BY CAST(channel AS INTEGER), bssid
NetLess(a, b) ==
    \/ a.channel < b.channel
    \/ a.channel = b.channel /\ a.bssid < b.bssid

\* the query without the condition on the channel
Eligible_anychannel(s) ==
    {n \in s.networks : n.bssid \notin s.whitelist}

\* the query without the exclusion of the whitelist
Eligible_nowhitelist(s) ==
    {n \in s.networks : n.channel > 0}

\* WHERE CAST(channel AS INTEGER) > 0 AND bssid NOT IN (whitelist)
Eligible(s) ==
    {n \in s.networks : n.channel > 0 /\ n.bssid \notin s.whitelist}

\* ... LIMIT 1 OFFSET ?   (the empty set stands for fetchone() = None)
SelectNetwork(s, offset) ==
    {n \in Eligible(s) :
        Cardinality({m \in Eligible(s) : NetLess(m, n)}) = offset}

\* SELECT ... FROM clients WHERE associated_network = ? LIMIT 1 OFFSET ?
ClientsOf(s, bssid) ==
    {c \in s.clients : c.associated_network = bssid}

SelectClient(s, bssid, offset) ==
    {c \in ClientsOf(s, bssid) :
        Cardinality({d \in ClientsOf(s, bssid) :
                        d.client_bssid < c.client_bssid}) = offset}

\* ------------------------------------------------------- orchestrator
scanForNetworks(s) ==
    LET s1 == run(s, Handle("scan", "none", NULL, 0, NULL))
    IN  [s1 EXCEPT !.scannerProc = Len(s1.procs)]

\* setChannel without the assignment lastChannel=channel
setChannel_nolast(s, channel, bssid) ==
    IF s.allow_attack = FALSE
    THEN s
    ELSE run(s, Handle("channel", "none", bssid, channel, NULL))

setChannel(s, channel, bssid) ==
    IF s.allow_attack = FALSE
    THEN s
    ELSE LET s1 == run(s, Handle("channel", "none", bssid, channel, NULL))
         IN  [s1 EXCEPT !.lastChannel = channel]

LogSelect(s, row) ==
    [s EXCEPT !.selLog = Append(@,
        [index |-> s.currentNet, loop |-> s.attackLoop,
         max |-> s.maxAttackLoop, last |-> s.lastChannel,
         nprocs |-> Len(s.procs),
         row |-> IF row = {} THEN NULL ELSE (CHOOSE n \in row : TRUE).bssid,
         channel |-> IF row = {} THEN 0
                     ELSE (CHOOSE n \in row : TRUE).channel])]

RECURSIVE attackNetworkByIndex(_)

\* exhausted with ">" in place of ">=" in the loop-limit test
exhausted_offbyone(s) ==
    LET s3 == [s EXCEPT !.currentNet = 0]
    IN  IF s3.attackLoop > s3.maxAttackLoop
        THEN scanForNetworks([s3 EXCEPT !.attackLoop = 1])
        ELSE attackNetworkByIndex([s3 EXCEPT !.attackLoop = @ + 1])

\* exhausted without the call of scanForNetworks() at the loop limit
exhausted_norescan(s) ==
    LET s3 == [s EXCEPT !.currentNet = 0]
    IN  IF s3.attackLoop >= s3.maxAttackLoop
        THEN [s3 EXCEPT !.attackLoop = 1]
        ELSE attackNetworkByIndex([s3 EXCEPT !.attackLoop = @ + 1])

\* exhausted with a monitor-mode command in place of scanForNetworks()
exhausted_modefirst(s) ==
    LET s3 == [s EXCEPT !.currentNet = 0]
    IN  IF s3.attackLoop >= s3.maxAttackLoop
        THEN run([s3 EXCEPT !.attackLoop = 1],
                 Handle("mode", "Monitor", NULL, 0, NULL))
        ELSE attackNetworkByIndex([s3 EXCEPT !.attackLoop = @ + 1])

\* attackNetworkByIndex, "if row is None:" branch
exhausted(s) ==
    LET s3 == [s EXCEPT !.currentNet = 0]
    IN  IF s3.attackLoop >= s3.maxAttackLoop
        THEN scanForNetworks([s3 EXCEPT !.attackLoop = 1])
        ELSE attackNetworkByIndex([s3 EXCEPT !.attackLoop = @ + 1])

\* attackRow without the return after setChannel
attackRow_fallthrough(s, r) ==
    LET s1 == IF s.lastChannel # r.channel
              THEN setChannel(s, r.channel, r.bssid)
              ELSE s
    IN  run(s1, Handle("broadcast", "none", r.bssid, r.channel, NULL))

\* attackNetworkByIndex from "if (lastChannel!=channel):" to the end
attackRow(s, r) ==
    IF s.lastChannel # r.channel
    THEN setChannel(s, r.channel, r.bssid)
    ELSE run(s, Handle("broadcast", "none", r.bssid, r.channel, NULL))

attackNetworkByIndex(s) ==
    LET s1  == [s EXCEPT !.currentClient = 0,
                         !.maxAttackLoop = s.cfgMaxLoop]
        row == SelectNetwork(s1, s1.currentNet)
        s2  == LogSelect(s1, row)
    IN  IF row = {}
        THEN exhausted(s2)
        ELSE LET r  == CHOOSE n \in row : TRUE
                 \* if (channel=="-1"): skip, recurse, then fall through
                 s4 == IF r.channel = -1
                       THEN attackNetworkByIndex(
                                [s2 EXCEPT !.currentNet = @ + 1])
                       ELSE s2
             IN  attackRow(s4, r)

attackClientByIndex(s, bssid, channel) ==
    LET row == SelectClient(s, bssid, s.currentClient)
    IN  IF row = {}
        THEN attackNetworkByIndex([s EXCEPT !.currentNet = @ + 1])
        ELSE LET c == CHOOSE x \in row : TRUE
             IN  run([s EXCEPT !.currentClient = @ + 1],
                     Handle("client", "none", bssid, channel,
                            c.client_bssid))

set_mode_finished(s) ==
    IF s.allow_attack = FALSE \/ s.wifiState = "Managed"
    THEN s
    ELSE scanForNetworks(s)

\* setWifiMode without the allow_attack test at its top
setWifiMode_unguarded(s, mode) ==
    IF mode # "None"
    THEN LET newMode == IF mode = "Monitor" THEN "Monitor" ELSE "Managed"
         IN  [run(s, Handle("mode", newMode, NULL, 0, NULL))
                 EXCEPT !.wifiState = newMode]
    ELSE [run(s, Handle("mode", "Managed", NULL, 0, NULL))
             EXCEPT !.wifiState = "Managed"]

\* mode = "None" stands for the call setWifiMode(wifiCard, None)
setWifiMode(s, mode) ==
    IF s.allow_attack = FALSE
    THEN s
    ELSE IF mode # "None"
         THEN LET newMode == IF mode = "Monitor" THEN "Monitor"
                                                 ELSE "Managed"
              IN  [run(s, Handle("mode", newMode, NULL, 0, NULL))
                      EXCEPT !.wifiState = newMode]
         ELSE IF s.wifiState = "Monitor"
              THEN [run(s, Handle("mode", "Managed", NULL, 0, NULL))
                       EXCEPT !.wifiState = "Managed"]
              \* set_mode_finished() is called without its two
              \* positional arguments: TypeError
              ELSE [s EXCEPT !.raised = TRUE]

set_channel_finished(s) ==
    IF s.allow_attack = FALSE
    THEN s
    ELSE attackNetworkByIndex(s)

\* attack_finished without the allow_attack check
attack_finished_unchecked(s, bssid, channel) ==
    attackClientByIndex(s, bssid, channel)

attack_finished(s, bssid, channel) ==
    IF s.allow_attack = FALSE
    THEN s
    ELSE attackClientByIndex(s, bssid, channel)

client_attack_finished(s, bssid, channel) ==
    IF s.allow_attack = FALSE
    THEN s
    ELSE attackClientByIndex(s, bssid, channel)

\* currentNet=0 assigns a local: the function has no global declaration
attackWifis(s) == attackNetworkByIndex(s)

\* clearScansDB followed by the import of the capture file `store`
readWifis(s, store) ==
    [s EXCEPT !.networks = store.networks, !.clients = store.clients]

scan_finished(s, store) ==
    IF s.allow_attack = FALSE
    THEN s
    ELSE attackWifis(readWifis(s, store))

\* clearScansDB: DELETE FROM clients; DELETE FROM networks; commit
clearScansDB(s) == [s EXCEPT !.networks = {}, !.clients = {}]

\* readWifis when the import raises, without the "except Exception"
readWifis_unabsorbed(s) == [clearScansDB(s) EXCEPT !.raised = TRUE]

\* readWifis when import_airodump_to_sqlite raises (no capture file, a
\* header it cannot parse, a database error): the tables were emptied and
\* committed before, the import commits nothing, "except Exception" prints
\* the failure and readWifis returns normally.
readWifis_failed(s) == clearScansDB(s)

scan_finished_failed(s) ==
    IF s.allow_attack = FALSE
    THEN s
    ELSE LET s1 == readWifis_failed(s)
         IN  IF s1.raised THEN s1 ELSE attackWifis(s1)

on_command_scan(s) ==
    setWifiMode([s EXCEPT !.allow_attack = TRUE], "Monitor")

\* stop_attack with mgr.kill_all() in place of scannerProc.kill()
on_command_stop_attack_killall(s) ==
    LET s1 == setWifiMode(s, "None")
    IN  IF s1.raised
        THEN s1
        ELSE kill_all([s1 EXCEPT !.allow_attack = FALSE])

\* When setWifiMode raises, the exception leaves on_command: the
\* assignment allow_attack=False and the kill are not executed.
on_command_stop_attack(s) ==
    LET s1 == setWifiMode(s, "None")
    IN  IF s1.raised
        THEN s1
        ELSE LET s2 == [s1 EXCEPT !.allow_attack = FALSE]
             IN  IF s2.scannerProc # NULL
                 THEN kill(s2, s2.scannerProc)
                 ELSE s2

\* ------------------------------------------------------- environment
\* Contents a capture file can import into the two tables.
NetworkTables(bssids) ==
    {t \in SUBSET [bssid : bssids, channel : Channels] :
        \A a, b \in t : a.bssid = b.bssid => a = b}

ClientTables(bssids, macs) ==
    {t \in SUBSET [client_bssid : macs,
                   associated_network : bssids \cup {NULL}] :
        \A a, b \in t : a.client_bssid = b.client_bssid => a = b}

Stores(bssids, macs) ==
    [networks : NetworkTables(bssids), clients : ClientTables(bssids, macs)]

\* QProcess.finished: the process of handle id has exited
Exited(s, id) == [s EXCEPT !.procs[id].running = FALSE]

Running(id) == id \in DOMAIN procs /\ procs[id].running

\* The handler that runs in this step: its name, the handle it completes,
\* whether it raised, and the handle count and attackLoop it started from.
Event(kind, id, raised) ==
    [kind |-> kind, id |-> id, raised |-> raised, n0 |-> Len(procs),
     loop0 |-> attackLoop]

\* A pass of Select network runs from a query at currentNet = 0 to the
\* query that returns no row.  `pass` records whether the running pass
\* started at index 0 on the present tables, and the networks for which a
\* broadcast command has been issued in it; `passDone` is the pass that
\* the handler of this step ended (the first query of the handler found
\* no row).  `imported` says that the handler re-imported the tables.
PassStep(imported) ==
    LET p0 == IF imported THEN [ok |-> currentNet = 0, seq |-> <<>>]
                          ELSE pass
        wrapped == selLog' # <<>> /\ selLog'[1].row = NULL
        p1 == IF wrapped THEN [ok |-> TRUE, seq |-> <<>>] ELSE p0
        new == {i \in (Len(procs) + 1)..Len(procs') :
                    procs'[i].kind = "broadcast"}
    IN  /\ pass' = IF new = {} THEN p1
                   ELSE [p1 EXCEPT !.seq =
                            Append(@, procs'[CHOOSE i \in new : TRUE].bssid)]
        /\ passDone' = IF wrapped THEN [valid |-> p0.ok, seq |-> p0.seq]
                       ELSE [valid |-> FALSE, seq |-> <<>>]

\* ------------------------------------------ CommandManager callbacks
\* An API call of the last step: its name, the id passed (or returned by
\* run), the value returned, whether the process of that id was running
\* when the call was made, and the result of get.
Call(op, id, ret, running0, got) ==
    [op |-> op, id |-> id, ret |-> ret, running0 |-> running0, got |-> got]

NoCall == Call("none", 0, FALSE, FALSE, {})

\* No handle yet.  started: QProcess.started was emitted; reg: the
\* callbacks passed to run; fin, err: how often on_finished and on_error
\* of the handle were invoked; how: the way its process ended; termed:
\* terminate() reached the running process; log: the ids returned by run.
MgrInit ==
    [started |-> {}, reg |-> <<>>, fin |-> <<>>, err |-> <<>>,
     how |-> <<>>, termed |-> {}, log |-> <<>>, last |-> NoCall]

\* _on_finished: "if cb: cb(pid, exit_code)"
mgr_on_finished(m, pid) ==
    IF m.reg[pid].fin THEN [m EXCEPT !.fin[pid] = @ + 1] ELSE m

\* _on_error: "if cb: cb(pid, msg)"
mgr_on_error(m, pid) ==
    IF m.reg[pid].err THEN [m EXCEPT !.err[pid] = @ + 1] ELSE m

\* The orchestrator's history of the radio: lastDone is the bssid of the
\* broadcast whose completion callback ran last; mid is the channel the
\* card was tuned to when the handler of this step issued its command;
\* tuned is that channel after the step: the channel of the channel-set
\* command that completed last, 0 when a scan, a mode-set or a channel-set
\* for another channel has been issued since; modeDone is the target mode
\* of the mode-set command that completed last; stable is the set of
\* networks that have been eligible ever since the running pass began.
HistInit == [lastDone |-> NULL, mid |-> 0, tuned |-> 0, modeDone |-> "none",
             stable |-> {}]

\* the bssids the Select network query can return for these tables
EligibleBssids(nets, white) ==
    {n.bssid : n \in {m \in nets : m.channel > 0 /\ m.bssid \notin white}}

HistStep ==
    LET done  == {id \in DOMAIN procs :
                    procs[id].running /\ ~procs'[id].running}
        doneB == {id \in done : procs[id].kind = "broadcast"}
        doneC == {id \in done : procs[id].kind = "channel"}
        doneM == {id \in done : procs[id].kind = "mode"}
        mid   == IF doneC # {}
                 THEN procs[CHOOSE id \in doneC : TRUE].channel
                 ELSE hist.tuned
        new   == (Len(procs) + 1)..Len(procs')
        retune == \E i \in new :
                     \/ procs'[i].kind \in {"scan", "mode"}
                     \/ procs'[i].kind = "channel" /\ procs'[i].channel # mid
    IN  hist' = [lastDone |-> IF doneB # {}
                             THEN procs[CHOOSE id \in doneB : TRUE].bssid
                             ELSE hist.lastDone,
                 mid |-> mid,
                 tuned |-> IF retune THEN 0 ELSE mid,
                 modeDone |-> IF doneM # {}
                              THEN procs[CHOOSE id \in doneM : TRUE].mode
                              ELSE hist.modeDone,
                 stable |->
                    IF \/ selLog' # <<>> /\ selLog'[1].row = NULL
                       \/ event'.kind = "scan_finished" /\ allow_attack
                    THEN EligibleBssids(networks', whitelist')
                    ELSE hist.stable \cap
                         EligibleBssids(networks', whitelist')]

\* placeholders until a request is made / the aggregator is constructed
InvInit == [state |-> "idle"]

HudInit == [lines |-> <<>>, cur |-> <<>>, dirty |-> FALSE,
            out |-> <<>>, n |-> 0,
            log |-> <<>>, last |-> [op |-> "init", emit |-> FALSE],
            since |-> FALSE]

\* ------------------------------------------------------------ actions
\* The state after module load, for a run bounded by nProcs handles and
\* nCmds frontend commands, with max_attack_loop taken from 1..nLoop, the
\* surroundings from nBssid networks and nClient clients, and a whitelist
\* over the first nWhite BSSIDs.
InitOrch(nProcs, nCmds, nLoop, nBssid, nClient, nWhite) ==
    /\ allow_attack = TRUE
    /\ wifiState = "Managed"
    /\ currentNet = 0
    /\ currentClient = 0
    /\ attackLoop = 1
    /\ maxAttackLoop = 2
    /\ lastChannel = 0
    /\ scannerProc = NULL
    /\ procs = <<>>
    /\ networks = {}
    /\ clients = {}
    /\ whitelist \in SUBSET (1..nBssid \cap 1..nWhite)
    /\ cfgMaxLoop \in 1..nLoop
    /\ air \in Stores(1..nBssid, 1..nClient)
    /\ cmds = 0
    /\ lim = [procs |-> nProcs, cmds |-> nCmds,
               white |-> 1..nBssid \cap 1..nWhite]
    /\ selLog = <<>>
    /\ event = [kind |-> "init", id |-> 0, raised |-> FALSE, n0 |-> 0,
                loop0 |-> 1]
    /\ stopped = FALSE
    /\ stopMark = 0
    /\ pass = [ok |-> FALSE, seq |-> <<>>]
    /\ passDone = [valid |-> FALSE, seq |-> <<>>]
    /\ mgr = MgrInit
    /\ hist = HistInit

InitWith(nProcs, nCmds, nLoop, nBssid, nClient, nWhite) ==
    /\ InitOrch(nProcs, nCmds, nLoop, nBssid, nClient, nWhite)
    /\ inv = InvInit
    /\ hud = HudInit

Init == InitWith(MaxProcs, MaxCmds, MaxLoop, NumBssid, NumClient, NumWhite)

InitWide ==
    InitWith(WideProcs, WideCmds, WideLoop, WideBssid, WideClient, WideWhite)

CmdScan ==
    /\ cmds < lim.cmds
    /\ cmds' = cmds + 1
    /\ Commit(on_command_scan(Cur))
    /\ PassStep(FALSE)
    /\ event' = Event("scan", 0, FALSE)
    /\ stopped' = FALSE
    /\ HistStep
    /\ UNCHANGED <<cfgMaxLoop, air, lim, stopMark, mgr, inv, hud>>

CmdStopAttack ==
    /\ cmds < lim.cmds
    /\ cmds' = cmds + 1
    /\ Commit(on_command_stop_attack(Cur))
    /\ PassStep(FALSE)
    /\ event' = Event("stop_attack", 0, on_command_stop_attack(Cur).raised)
    /\ stopped' = TRUE
    /\ stopMark' = Len(procs)
    /\ HistStep
    /\ UNCHANGED <<cfgMaxLoop, air, lim, mgr, inv, hud>>

SetModeFinished(id) ==
    /\ Running(id) /\ procs[id].kind = "mode"
    /\ Commit(set_mode_finished(Exited(Cur, id)))
    /\ PassStep(FALSE)
    /\ event' = Event("set_mode_finished", id, FALSE)
    /\ HistStep
    /\ UNCHANGED <<cfgMaxLoop, air, cmds, lim, stopped, stopMark, mgr, inv,
                   hud>>

ScanFinished(id) ==
    /\ Running(id) /\ procs[id].kind = "scan"
    /\ Commit(scan_finished(Exited(Cur, id), air))
    /\ PassStep(allow_attack)
    /\ event' = Event("scan_finished", id, FALSE)
    /\ HistStep
    /\ UNCHANGED <<cfgMaxLoop, air, cmds, lim, stopped, stopMark, mgr, inv,
                   hud>>

SetChannelFinished(id) ==
    /\ Running(id) /\ procs[id].kind = "channel"
    /\ Commit(set_channel_finished(Exited(Cur, id)))
    /\ PassStep(FALSE)
    /\ event' = Event("set_channel_finished", id, FALSE)
    /\ HistStep
    /\ UNCHANGED <<cfgMaxLoop, air, cmds, lim, stopped, stopMark, mgr, inv,
                   hud>>

AttackFinished(id) ==
    /\ Running(id) /\ procs[id].kind = "broadcast"
    /\ Commit(attack_finished(Exited(Cur, id), procs[id].bssid,
                              procs[id].channel))
    /\ PassStep(FALSE)
    /\ event' = Event("attack_finished", id, FALSE)
    /\ HistStep
    /\ UNCHANGED <<cfgMaxLoop, air, cmds, lim, stopped, stopMark, mgr, inv,
                   hud>>

ClientAttackFinished(id) ==
    /\ Running(id) /\ procs[id].kind = "client"
    /\ Commit(client_attack_finished(Exited(Cur, id), procs[id].bssid,
                                     procs[id].channel))
    /\ PassStep(FALSE)
    /\ event' = Event("client_attack_finished", id, FALSE)
    /\ HistStep
    /\ UNCHANGED <<cfgMaxLoop, air, cmds, lim, stopped, stopMark, mgr, inv,
                   hud>>

Next ==
    \/ CmdScan
    \/ CmdStopAttack
    \/ \E id \in DOMAIN procs : SetModeFinished(id)
    \/ \E id \in DOMAIN procs : ScanFinished(id)
    \/ \E id \in DOMAIN procs : SetChannelFinished(id)
    \/ \E id \in DOMAIN procs : AttackFinished(id)
    \/ \E id \in DOMAIN procs : ClientAttackFinished(id)

Spec == Init /\ [][Next]_vars

\* The whitelist dialog (opened by the frontend command "whitelist", modal
\* with its own event loop) saves the edited list: Save replaces the stored
\* list by w, Clear by the empty list.  Completion callbacks keep arriving
\* while the dialog is open.
WhitelistSave(w) ==
    /\ w # whitelist
    /\ whitelist' = w
    /\ selLog' = <<>>
    /\ event' = Event("whitelist", 0, FALSE)
    /\ pass' = [pass EXCEPT !.ok = FALSE]
    /\ passDone' = [valid |-> FALSE, seq |-> <<>>]
    /\ hist' = [hist EXCEPT !.stable = @ \cap EligibleBssids(networks, w)]
    /\ UNCHANGED <<allow_attack, wifiState, currentNet, currentClient,
                   attackLoop, maxAttackLoop, lastChannel, scannerProc,
                   procs, networks, clients, cfgMaxLoop, air, cmds, lim,
                   stopped, stopMark, mgr, inv, hud>>

InitEdit ==
    InitWith(EditProcs, EditCmds, EditLoop, EditBssid, EditClient, EditWhite)

NextEdit ==
    \/ Next
    \/ \E w \in SUBSET lim.white : WhitelistSave(w)

SpecEdit == InitEdit /\ [][NextEdit]_vars

SpecWide == InitWide /\ [][Next]_vars

InitList ==
    InitWith(ListProcs, ListCmds, ListLoop, ListBssid, ListClient, ListWhite)

SpecList == InitList /\ [][NextEdit]_vars

InitDeep ==
    InitWith(DeepProcs, DeepCmds, DeepLoop, DeepBssid, DeepClient, DeepWhite)

SpecDeep == InitDeep /\ [][Next]_vars

InitStop ==
    InitWith(StopProcs, StopCmds, StopLoop, StopBssid, StopClient, StopWhite)

SpecStop == InitStop /\ [][Next]_vars

\* exit codes a command may report: success, failure, killed by timeout
ExitCodes == {0, 1, 137}

\* scan_finished that returns at once on a non-zero exit code
on_finished_scanchecked(s, pid, chunk, store) ==
    LET h == s.procs[pid]
    IN  CASE h.kind = "mode" -> set_mode_finished(s)
          [] h.kind = "scan" -> IF chunk # 0 THEN s ELSE scan_finished(s, store)
          [] h.kind = "channel" -> set_channel_finished(s)
          [] h.kind = "broadcast" -> attack_finished(s, h.bssid, h.channel)
          [] h.kind = "client" ->
                client_attack_finished(s, h.bssid, h.channel)

\* CommandManager._on_finished calls cb(pid, exit_code) with the callback
\* given to run; every callback of the orchestrator names its second
\* parameter `chunk` and never reads it.
on_finished(s, pid, chunk, store) ==
    LET h == s.procs[pid]
    IN  CASE h.kind = "mode" -> set_mode_finished(s)
          [] h.kind = "scan" -> scan_finished(s, store)
          [] h.kind = "channel" -> set_channel_finished(s)
          [] h.kind = "broadcast" -> attack_finished(s, h.bssid, h.channel)
          [] h.kind = "client" ->
                client_attack_finished(s, h.bssid, h.channel)

FinishedKind(id) ==
    CASE procs[id].kind = "mode" -> "set_mode_finished"
      [] procs[id].kind = "scan" -> "scan_finished"
      [] procs[id].kind = "channel" -> "set_channel_finished"
      [] procs[id].kind = "broadcast" -> "attack_finished"
      [] procs[id].kind = "client" -> "client_attack_finished"

\* QProcess.finished(code, status) of handle id
Finished(id, exit_code) ==
    /\ Running(id)
    /\ Commit(on_finished(Exited(Cur, id), id, exit_code, air))
    /\ PassStep(procs[id].kind = "scan" /\ allow_attack)
    /\ event' = [kind |-> FinishedKind(id), id |-> id, raised |-> FALSE,
                 n0 |-> Len(procs), loop0 |-> attackLoop,
                 code |-> exit_code]
    /\ HistStep
    /\ UNCHANGED <<cfgMaxLoop, air, cmds, lim, stopped, stopMark, mgr, inv,
                   hud>>

InitExit ==
    InitWith(ExitProcs, ExitCmds, ExitLoop, ExitBssid, ExitClient, ExitWhite)

NextExit ==
    \/ CmdScan
    \/ CmdStopAttack
    \/ \E id \in DOMAIN procs, exit_code \in ExitCodes :
          Finished(id, exit_code)

SpecExit == InitExit /\ [][NextExit]_vars

\* scan_finished when the import of the capture file fails
ScanImportFailed(id) ==
    /\ Running(id) /\ procs[id].kind = "scan"
    /\ Commit(scan_finished_failed(Exited(Cur, id)))
    /\ PassStep(allow_attack)
    /\ event' = Event("import_failed", id,
                       scan_finished_failed(Exited(Cur, id)).raised)
    /\ HistStep
    /\ UNCHANGED <<cfgMaxLoop, air, cmds, lim, stopped, stopMark, mgr, inv,
                   hud>>

InitLive ==
    InitWith(LiveProcs, LiveCmds, LiveLoop, LiveBssid, LiveClient, LiveWhite)

\* No stop_attack is received; a capture may fail to import.
NextLive ==
    \/ CmdScan
    \/ \E id \in DOMAIN procs : SetModeFinished(id)
    \/ \E id \in DOMAIN procs : ScanFinished(id)
    \/ \E id \in DOMAIN procs : ScanImportFailed(id)
    \/ \E id \in DOMAIN procs : SetChannelFinished(id)
    \/ \E id \in DOMAIN procs : AttackFinished(id)
    \/ \E id \in DOMAIN procs : ClientAttackFinished(id)

\* Every issued command runs under "timeout -s KILL" or ends by itself, and
\* the Qt event loop delivers QProcess.finished to the callback given to
\* run: a running command eventually completes.
EventuallyCompletes(id) ==
    \/ SetModeFinished(id)
    \/ ScanFinished(id)
    \/ ScanImportFailed(id)
    \/ SetChannelFinished(id)
    \/ AttackFinished(id)
    \/ ClientAttackFinished(id)

FairLive == WF_vars(\E id \in DOMAIN procs : EventuallyCompletes(id))

SpecLive == InitLive /\ [][NextLive]_vars /\ FairLive

\* ----------------------------------------------- CommandManager alone
MgrState == [procs |-> procs, termed |-> mgr.termed]

OrchUnchangedBase ==
    UNCHANGED <<allow_attack, wifiState, currentNet, currentClient,
                attackLoop, maxAttackLoop, lastChannel, scannerProc,
                networks, clients, whitelist, cfgMaxLoop, air, cmds, lim,
                selLog, event, stopped, stopMark, pass, passDone>>

OrchUnchanged ==
    UNCHANGED <<allow_attack, wifiState, currentNet, currentClient,
                attackLoop, maxAttackLoop, lastChannel, scannerProc,
                networks, clients, whitelist, cfgMaxLoop, air, cmds, lim,
                selLog, event, stopped, stopMark, pass, passDone, hist, inv,
                hud>>

\* mgr.run(command, on_finished=..., on_error=...): the caller passes
\* on_finished, as every call in pyDeauther.py does, and on_error if onE
MgrRun(onE) ==
    /\ Len(procs) < lim.procs
    /\ LET s1  == run(MgrState, Handle("command", "none", NULL, 0, NULL))
           pid == Len(s1.procs)
       IN  /\ procs' = s1.procs
           /\ mgr' = [mgr EXCEPT
                        !.reg = Append(@, [fin |-> TRUE, err |-> onE]),
                        !.fin = Append(@, 0),
                        !.err = Append(@, 0),
                        !.how = Append(@, "none"),
                        !.log = Append(@, pid),
                        !.last = Call("run", pid, TRUE, FALSE, {})]
    /\ OrchUnchanged

MgrGet(pid) ==
    /\ mgr' = [mgr EXCEPT
                 !.last = Call("get", pid, TRUE, Running(pid),
                               get(MgrState, pid))]
    /\ UNCHANGED procs
    /\ OrchUnchanged

MgrKill(pid) ==
    /\ LET r == CommandManager_kill(MgrState, pid)
       IN  /\ procs' = r.state.procs
           /\ mgr' = [mgr EXCEPT
                        !.last = Call("kill", pid, r.ret, Running(pid), {})]
    /\ OrchUnchanged

MgrTerminate(pid) ==
    /\ LET r == CommandManager_terminate(MgrState, pid)
       IN  mgr' = [mgr EXCEPT
                     !.termed = r.state.termed,
                     !.last = Call("terminate", pid, r.ret, Running(pid), {})]
    /\ UNCHANGED procs
    /\ OrchUnchanged

MgrKillAll ==
    /\ procs' = kill_all(MgrState).procs
    /\ mgr' = [mgr EXCEPT !.last = Call("kill_all", 0, TRUE, FALSE, {})]
    /\ OrchUnchanged

\* QProcess.started: the program was found and executed
ProcStarted(id) ==
    /\ Running(id) /\ id \notin mgr.started
    /\ mgr' = [mgr EXCEPT !.started = @ \cup {id}, !.last = NoCall]
    /\ UNCHANGED procs
    /\ OrchUnchanged

\* QProcess.readyReadStandardOutput -> _on_chunk_merged: the chunk goes
\* to the buffer of the handle and to on_output
ProcOutput(id) ==
    /\ Running(id) /\ id \in mgr.started
    /\ mgr' = [mgr EXCEPT !.last = Call("output", id, FALSE, TRUE, {})]
    /\ UNCHANGED procs
    /\ OrchUnchanged

\* The process exits by itself: QProcess.finished(code, NormalExit)
ProcExited(id) ==
    /\ Running(id) /\ id \in mgr.started
    /\ procs' = Exited(MgrState, id).procs
    /\ mgr' = mgr_on_finished(
                 [mgr EXCEPT !.how[id] = "exit", !.last = NoCall], id)
    /\ OrchUnchanged

\* The process dies of a signal (its own crash, kill() or an unhandled
\* terminate()): QProcess.errorOccurred(Crashed), then
\* QProcess.finished(code, CrashExit)
ProcCrashed(id) ==
    /\ Running(id) /\ id \in mgr.started
    /\ procs' = Exited(MgrState, id).procs
    /\ mgr' = mgr_on_finished(
                 mgr_on_error(
                   [mgr EXCEPT !.how[id] = "crash", !.last = NoCall], id),
                 id)
    /\ OrchUnchanged

\* The program cannot be executed: QProcess.errorOccurred(FailedToStart);
\* QProcess emits no finished signal for a process that never started
ProcFailedToStart(id) ==
    /\ Running(id) /\ id \notin mgr.started
    /\ procs' = Exited(MgrState, id).procs
    /\ mgr' = mgr_on_error(
                 [mgr EXCEPT !.how[id] = "failed", !.last = NoCall], id)
    /\ OrchUnchanged

InitMgr == InitWith(MgrProcs, 0, 1, 0, 0, 0)

NextMgr ==
    \/ \E onE \in BOOLEAN : MgrRun(onE)
    \/ \E pid \in 1..(Len(procs) + 1) : MgrGet(pid)
    \/ \E pid \in 1..(Len(procs) + 1) : MgrKill(pid)
    \/ \E pid \in 1..(Len(procs) + 1) : MgrTerminate(pid)
    \/ MgrKillAll
    \/ \E id \in DOMAIN procs : ProcStarted(id)
    \/ \E id \in DOMAIN procs : ProcOutput(id)
    \/ \E id \in DOMAIN procs : ProcExited(id)
    \/ \E id \in DOMAIN procs : ProcCrashed(id)
    \/ \E id \in DOMAIN procs : ProcFailedToStart(id)

SpecMgr == InitMgr /\ [][NextMgr]_vars

\* ------------------------------------------------- invocation building
\* A text is a sequence of tokens: a token is a run of characters that
\* shlex treats as safe, or one special character.  A word (one argv
\* element) is a text as well.  The method is spelled character by
\* character because _prepare_invocation lowers it and tests its prefix.
SafeTok == {"ls", "rm", "-l", "sudo", "pkexec", "bash", "-lc", "-S", "echo",
            "p", "w"}

SQ == "'"

DQ == "\""

lower(c) ==
    CASE c = "P" -> "p" [] c = "K" -> "k" [] c = "E" -> "e" [] c = "X" -> "x"
      [] c = "C" -> "c" [] c = "S" -> "s" [] c = "U" -> "u" [] c = "D" -> "d"
      [] c = "O" -> "o" [] OTHER -> c

startswith(s, prefix) ==
    /\ Len(s) >= Len(prefix)
    /\ \A i \in 1..Len(prefix) : s[i] = prefix[i]

pkexec_chars == <<"p", "k", "e", "x", "e", "c">>

method_is_pkexec(method) ==
    startswith([i \in 1..Len(method) |-> lower(method[i])], pkexec_chars)

RECURSIVE join(_, _)
join(ws, sep) ==
    IF ws = <<>> THEN <<>>
    ELSE IF Len(ws) = 1 THEN ws[1]
    ELSE ws[1] \o sep \o join(Tail(ws), sep)

RECURSIVE replace_quote(_)
replace_quote(s) ==
    IF s = <<>> THEN <<>>
    ELSE (IF Head(s) = SQ THEN <<SQ, DQ, SQ, DQ, SQ>> ELSE <<Head(s)>>)
         \o replace_quote(Tail(s))

shlex_quote_identity(s) == s

\* shlex.quote: '' for the empty string, the string itself when every
\* character is safe, otherwise the string in single quotes with each
\* single quote replaced by '"'"'
shlex_quote(s) ==
    IF s = <<>> THEN <<SQ, SQ>>
    ELSE IF \A i \in 1..Len(s) : s[i] \in SafeTok THEN s
    ELSE <<SQ>> \o replace_quote(s) \o <<SQ>>

\* The tokenizer shared by shlex.split (sh = FALSE) and by bash reading
\* the string after -lc (sh = TRUE): blanks separate words, single and
\* double quotes group, and for bash an unquoted ; or | ends the command.
RECURSIVE Tokenize(_, _, _, _, _, _)
Tokenize(t, i, mode, cur, has, sh) ==
    LET flush == IF has THEN <<[sep |-> FALSE, w |-> cur]>> ELSE <<>>
    IN  IF i > Len(t) THEN flush
        ELSE LET c == t[i]
             IN  CASE mode = "n" /\ c = " " ->
                        flush \o Tokenize(t, i + 1, "n", <<>>, FALSE, sh)
                   [] mode = "n" /\ sh /\ c \in {";", "|"} ->
                        flush \o <<[sep |-> TRUE, w |-> <<>>]>>
                              \o Tokenize(t, i + 1, "n", <<>>, FALSE, sh)
                   [] mode = "n" /\ c = SQ ->
                        Tokenize(t, i + 1, "s", cur, TRUE, sh)
                   [] mode = "n" /\ c = DQ ->
                        Tokenize(t, i + 1, "d", cur, TRUE, sh)
                   [] mode = "s" /\ c = SQ ->
                        Tokenize(t, i + 1, "n", cur, TRUE, sh)
                   [] mode = "d" /\ c = DQ ->
                        Tokenize(t, i + 1, "n", cur, TRUE, sh)
                   [] OTHER ->
                        Tokenize(t, i + 1, mode, Append(cur, c), TRUE, sh)

shlex_split(t) ==
    LET items == Tokenize(t, 1, "n", <<>>, FALSE, FALSE)
    IN  [i \in 1..Len(items) |-> items[i].w]

RECURSIVE SplitCommands(_, _)
SplitCommands(items, cur) ==
    IF items = <<>> THEN (IF cur = <<>> THEN <<>> ELSE <<cur>>)
    ELSE IF Head(items).sep
         THEN (IF cur = <<>> THEN <<>> ELSE <<cur>>)
              \o SplitCommands(Tail(items), <<>>)
         ELSE SplitCommands(Tail(items), Append(cur, Head(items).w))

\* the simple commands bash runs for  bash -lc <text>
bash_commands(t) ==
    SplitCommands(Tokenize(t, 1, "n", <<>>, FALSE, TRUE), <<>>)

Invocation(program, args) == [raised |-> FALSE, program |-> program,
                              args |-> args]

IndexError == [raised |-> TRUE, program |-> <<>>, args |-> <<>>]

prepare_invocation(cmd_str, elevate, method, sudo_password, shell) ==
    IF shell
    THEN LET inner == cmd_str
         IN  IF elevate
             THEN IF method_is_pkexec(method)
                  THEN Invocation(<<"pkexec">>,
                                  <<(<<"bash">>), (<<"-lc">>), inner>>)
                  ELSE IF sudo_password.some
                       THEN Invocation(<<"bash">>,
                              <<(<<"-lc">>),
                                <<"echo", " ">>
                                  \o shlex_quote(sudo_password.text)
                                  \o <<" ", "|", " ", "sudo", " ", "-S", " ",
                                       "bash", " ", "-lc", " ">>
                                  \o shlex_quote(inner)>>)
                       ELSE Invocation(<<"bash">>,
                              <<(<<"-lc">>),
                                <<"sudo", " ", "bash", " ", "-lc", " ">>
                                  \o shlex_quote(inner)>>)
             ELSE Invocation(<<"bash">>, <<(<<"-lc">>), inner>>)
    ELSE LET parts == shlex_split(cmd_str)
         IN  IF elevate
             THEN IF method_is_pkexec(method)
                  THEN Invocation(<<"pkexec">>, parts)
                  ELSE IF sudo_password.some
                       THEN LET full ==
                                  join([i \in 1..Len(parts) |->
                                          shlex_quote(parts[i])], <<" ">>)
                            IN  Invocation(<<"bash">>,
                                  <<(<<"-lc">>),
                                    <<"echo", " ">>
                                      \o shlex_quote(sudo_password.text)
                                      \o <<" ", "|", " ", "sudo", " ", "-S",
                                           " ">>
                                      \o full>>)
                       ELSE Invocation(<<"sudo">>, parts)
             ELSE IF parts = <<>> THEN IndexError
                  ELSE Invocation(parts[1], Tail(parts))

\* the method recorded on the handle by run()
handle_method(elevate, method) ==
    IF elevate /\ startswith(method, pkexec_chars) THEN "pkexec"
    ELSE IF elevate THEN "sudo" ELSE "none"

NoPassword == [some |-> FALSE, text |-> <<>>]

Password(text) == [some |-> TRUE, text |-> text]

Methods == { pkexec_chars,
             <<"P", "K", "E", "X", "E", "C">>,
             <<"P", "k", "e", "x", "e", "c">>,
             <<"p", "k", "e", "x", "e", "c", "-", "x">>,
             <<"p", "k", "e", "x">>,
             <<"s", "u", "d", "o">>,
             <<"S", "U", "D", "O">>,
             <<"n", "o", "n", "e">> }

Passwords == { NoPassword, Password(<<>>), Password(<<"p", "w">>),
               Password(<<"p", SQ, "w">>), Password(<<"p", ";", "rm">>) }

\* command strings as run() hands them over (stripped)
CmdStrs == { <<>>,
             <<"ls">>,
             <<"ls", " ", "-l">>,
             <<"sudo", " ", "ls">>,
             <<"pkexec", " ", "ls">>,
             <<"ls", ";", "rm">>,
             <<"ls", " ", ";", " ", "rm">>,
             <<"ls", " ", SQ, ";", SQ, " ", "rm">>,
             <<"ls", " ", "|", " ", "sudo", " ", "rm">>,
             <<"ls", " ", DQ, "p", SQ, "w", DQ>> }

Requests ==
    [cmd_str : CmdStrs, elevate : BOOLEAN, method : Methods,
     sudo_password : Passwords, shell : BOOLEAN]

InvBuilt(req) ==
    [state |-> "built", req |-> req,
     out |-> prepare_invocation(req.cmd_str, req.elevate, req.method,
                                req.sudo_password, req.shell),
     label |-> handle_method(req.elevate, req.method)]

\* run(): one request is turned into the program and arguments handed to
\* QProcess.start, and the handle is labelled with its method
PrepareInvocation ==
    /\ inv.state = "request"
    /\ inv' = InvBuilt(inv.req)
    /\ UNCHANGED procs
    /\ UNCHANGED mgr
    /\ UNCHANGED hist
    /\ UNCHANGED hud
    /\ OrchUnchangedBase

InitInv ==
    /\ InitOrch(0, 0, 1, 0, 0, 0)
    /\ inv \in {[state |-> "request", req |-> req] : req \in Requests}
    /\ hud = HudInit

NextInv == PrepareInvocation

SpecInv == InitInv /\ [][NextInv]_vars

\* What an invocation executes.  Starting from the argv QProcess starts, a
\* leading pkexec or sudo is a wrapper around the rest of the argv, and a
\* bash -lc <text> that is not the request's own command runs each simple
\* command of the text.  A leaf is the request's command (with the wrappers
\* around it) or some other command.
TheCommand(req) ==
    IF req.shell THEN <<(<<"bash">>), (<<"-lc">>), req.cmd_str>>
    ELSE shlex_split(req.cmd_str)

Wrappers == {<<"pkexec">>, <<"sudo">>}

RECURSIVE Executes(_, _, _, _)
Executes(argv, wrap, req, depth) ==
    IF argv = TheCommand(req)
    THEN {[what |-> "command", wrap |-> wrap, argv |-> argv]}
    ELSE IF argv # <<>> /\ argv[1] \in Wrappers /\ depth > 0
    THEN LET rest == IF Len(argv) > 1 /\ argv[2] = <<"-S">>
                     THEN SubSeq(argv, 3, Len(argv)) ELSE Tail(argv)
         IN  Executes(rest, wrap \o argv[1], req, depth - 1)
    ELSE IF Len(argv) = 3 /\ argv[1] = <<"bash">> /\ argv[2] = <<"-lc">>
            /\ depth > 0
    THEN LET cs == bash_commands(argv[3])
         IN  UNION {Executes(cs[i], wrap, req, depth - 1) :
                      i \in 1..Len(cs)}
    ELSE {[what |-> "other", wrap |-> wrap, argv |-> argv]}

ExecDepth == 3

\* ------------------------------------------------ HudStreamAggregator
\* A text is a sequence of characters.  ESC stands for the character
\* \x1b and "sz" for the letter U+00DF, whose upper() is "SS".
ESC == "ESC"

LF == "\n"

CR == "\r"

RE_PARAM == {"1", "2"}                      \* [0-?]

RE_INTER == {" ", "."}                      \* [ -/]

RE_FINAL == {"H", "J", "c", "m", "r", "o", "w", "x", "y", "[", "C", "h"}

\* the end of the match of \x1B\[[0-?]*[ -/]*[@-~] that starts at i, or 0
RECURSIVE SkipClass(_, _, _)
SkipClass(t, i, class) ==
    IF i <= Len(t) /\ t[i] \in class THEN SkipClass(t, i + 1, class) ELSE i

AnsiEnd(t, i) ==
    IF i + 1 <= Len(t) /\ t[i] = ESC /\ t[i + 1] = "["
    THEN LET j == SkipClass(t, SkipClass(t, i + 2, RE_PARAM), RE_INTER)
         IN  IF j <= Len(t) /\ t[j] \in RE_FINAL THEN j ELSE 0
    ELSE 0

\* _RE_ANSI_ALL.sub('', text)
RECURSIVE strip_ansi(_, _)
strip_ansi(t, i) ==
    IF i > Len(t) THEN <<>>
    ELSE IF AnsiEnd(t, i) # 0 THEN strip_ansi(t, AnsiEnd(t, i) + 1)
    ELSE <<t[i]>> \o strip_ansi(t, i + 1)

\* the first 0-based index at which pat occurs in t, -1 if none
find(t, pat) ==
    LET hits == {i \in 0..(Len(t) - Len(pat)) :
                    \A k \in 1..Len(pat) : t[i + k] = pat[k]}
    IN  IF hits = {} THEN -1
        ELSE CHOOSE i \in hits : \A j \in hits : i <= j

\* _RE_CSI_CLEAR.search(text) or _RE_CSI_HOME.search(text)
has_clear_or_home(t) ==
    \/ find(t, <<ESC, "[", "2", "J">>) # -1
    \/ find(t, <<ESC, "[", "J">>) # -1
    \/ find(t, <<ESC, "[", "H">>) # -1

\* str.upper(), character by character
upper_char(c) ==
    CASE c = "c" -> <<"C">> [] c = "h" -> <<"H">> [] c = "r" -> <<"R">>
      [] c = "o" -> <<"O">> [] c = "w" -> <<"W">> [] c = "x" -> <<"X">>
      [] c = "y" -> <<"Y">> [] c = "m" -> <<"M">> [] c = "d" -> <<"D">>
      [] c = "sz" -> <<"S", "S">> [] OTHER -> <<c>>

RECURSIVE upper(_)
upper(t) == IF t = <<>> THEN <<>> ELSE upper_char(Head(t)) \o upper(Tail(t))

RECURSIVE rstrip_newline(_)
rstrip_newline(t) ==
    IF t # <<>> /\ t[Len(t)] = LF
    THEN rstrip_newline(SubSeq(t, 1, Len(t) - 1)) ELSE t

\* append of a deque without maxlen
deque_append_unbounded(lines, line) == Append(lines, line)

\* deque(maxlen=max_lines).append
deque_append(lines, line) ==
    IF Len(lines) >= HudMaxLines THEN Append(Tail(lines), line)
    ELSE Append(lines, line)

hud_reset_keepline(h, initial_header) ==
    [h EXCEPT !.lines = IF initial_header # <<>>
                        THEN <<rstrip_newline(initial_header)>> ELSE <<>>,
              !.dirty = TRUE]

hud_reset(h, initial_header) ==
    [h EXCEPT !.lines = IF initial_header # <<>>
                        THEN <<rstrip_newline(initial_header)>> ELSE <<>>,
              !.cur = <<>>,
              !.dirty = TRUE]

finalize_line(h) ==
    LET raw_line == h.cur
        idx      == find(upper(raw_line), <<"C", "H", " ">>)
        line     == IF idx # -1
                    THEN SubSeq(raw_line, idx + 1, Len(raw_line))
                    ELSE raw_line
    IN  [h EXCEPT !.cur = <<>>,
                  !.lines = deque_append(IF idx # -1 THEN <<>> ELSE @, line),
                  !.dirty = TRUE]

RECURSIVE ingest_chars(_, _, _)
ingest_chars(h, chunk, i) ==
    IF i > Len(chunk) THEN h
    ELSE IF chunk[i] = CR
         THEN ingest_chars([h EXCEPT !.cur = <<>>], chunk, i + 1)
    ELSE IF chunk[i] = LF
         THEN ingest_chars(finalize_line(h), chunk, i + 1)
    ELSE ingest_chars([h EXCEPT !.cur = Append(@, chunk[i])], chunk, i + 1)

ingest_cr_appends(h, chunk) ==
    [ingest_chars(h, SelectSeq(chunk, LAMBDA c : c # CR), 1)
        EXCEPT !.dirty = TRUE]

ingest_nodirty(h, chunk) == ingest_chars(h, chunk, 1)

ingest(h, chunk) == [ingest_chars(h, chunk, 1) EXCEPT !.dirty = TRUE]

consume_str(h, text) ==
    IF text = <<>> THEN h
    ELSE ingest(IF has_clear_or_home(text) THEN hud_reset(h, <<>>) ELSE h,
                strip_ansi(text, 1))

\* sig_render.emit: n counts the emissions, out is the last payload
flush(h) ==
    IF ~h.dirty THEN h
    ELSE LET parts == h.lines
                      \o (IF h.cur # <<>> THEN <<h.cur>> ELSE <<>>)
         IN  [h EXCEPT !.out = join(parts, <<LF>>),
                       !.n = @ + 1,
                       !.dirty = FALSE]

\* the chunks fed: plain text, carriage returns, line feeds, the frame
\* marker in mixed case, control sequences, and the example of the
\* specification
ExampleChunk == <<"C", "H", " ", "1", " ", ".", ".", ".", LF,
                  "r", "o", "w", CR, "r", "o", "w", "2", LF>>

Chunks == { <<>>,
            <<"x">>,
            <<CR>>,
            <<LF>>,
            <<"y", LF>>,
            <<"c", "H", " ", "1">>,
            <<"sz">>,
            <<"x", CR, "y">>,
            <<ESC, "[", "2", "J">>,
            <<ESC, "[", "H">>,
            <<"x", LF, ESC, "[", "J", "y">>,
            <<ESC, "[", "1", "m", "y">>,
            ExampleChunk }

Headers == { <<>>, <<"h", "d", "r", LF>> }

\* log, last and since are history: the feeds and resets so far, the
\* last operation, and whether a chunk was ingested or reset was called
\* since the last emission
HudFeed(chunk) ==
    /\ Len(hud.log) < HudMaxFeeds
    /\ hud' = [consume_str(hud, chunk) EXCEPT
                  !.log = Append(@, [op |-> "feed", text |-> chunk]),
                  !.last = [op |-> "feed", emit |-> FALSE],
                  !.since = @ \/ chunk # <<>>]
    /\ UNCHANGED <<procs, mgr, hist, inv>>
    /\ OrchUnchangedBase

HudReset(header) ==
    /\ Len(hud.log) < HudMaxFeeds
    /\ hud' = [hud_reset(hud, header) EXCEPT
                  !.log = Append(@, [op |-> "reset", text |-> header]),
                  !.last = [op |-> "reset", emit |-> FALSE],
                  !.since = TRUE]
    /\ UNCHANGED <<procs, mgr, hist, inv>>
    /\ OrchUnchangedBase

HudTick ==
    /\ hud' = [flush(hud) EXCEPT
                  !.last = [op |-> "tick", emit |-> flush(hud).n # hud.n],
                  !.since = @ /\ flush(hud).n = hud.n]
    /\ UNCHANGED <<procs, mgr, hist, inv>>
    /\ OrchUnchangedBase

InitHud == InitWith(0, 0, 1, 0, 0, 0)

NextHud ==
    \/ \E chunk \in Chunks : HudFeed(chunk)
    \/ \E header \in Headers : HudReset(header)
    \/ HudTick

SpecHud == InitHud /\ [][NextHud]_vars

\* --------------------------- the orchestrator feeding the aggregator
\* what a capture prints: text, a finished line, a cursor-home sequence
ScanChunks == { <<"x">>, <<"y", LF>>, <<ESC, "[", "H">> }

\* on_out_scanner: a running capture command printed `chunk`; the
\* CommandManager passes it on decoded and the handler feeds it to agg.
\* No handler of the orchestrator calls agg.reset: init_hud_stream, the
\* only caller, is itself never called, and scanForNetworks leaves agg
\* alone, so the orchestrator actions keep hud unchanged.
OnOutScanner(id, chunk) ==
    /\ Running(id) /\ procs[id].kind = "scan"
    /\ HudFeed(chunk)

InitOut ==
    InitWith(OutProcs, OutCmds, OutLoop, OutBssid, OutClient, OutWhite)

NextOut ==
    \/ CmdScan
    \/ \E id \in DOMAIN procs : SetModeFinished(id)
    \/ \E id \in DOMAIN procs : ScanFinished(id)
    \/ \E id \in DOMAIN procs : SetChannelFinished(id)
    \/ \E id \in DOMAIN procs : AttackFinished(id)
    \/ \E id \in DOMAIN procs, chunk \in ScanChunks : OnOutScanner(id, chunk)
    \/ HudTick

SpecOut == InitOut /\ [][NextOut]_vars

\* ------------------------------------ the aggregator and its threads
\* The aggregator lives in the thread that created it, the GUI thread (the
\* consumer context): its timer and the slots of queued signals run there,
\* one at a time, each to its end.
ConsumerThread == "gui"

Threads == {"gui", "worker"}

\* a slot or method running on `thread` that works on the line buffer;
\* writers records the threads that ever did
on_thread(h, thread) == [h EXCEPT !.writers = @ \cup {thread}]

\* feed with the signal connected directly: the slot runs in the caller
feed_direct(h, thread, chunk) == on_thread(consume_str(h, chunk), thread)

\* feed: emits _sig_feed_str, connected in __init__ with the default
\* connection type: the slot _consume_str is called at once when the
\* emitting thread is the thread of the aggregator, and otherwise the
\* call is posted to the event queue of that thread.
feed(h, thread, chunk) ==
    IF thread = ConsumerThread
    THEN on_thread(consume_str(h, chunk), thread)
    ELSE [h EXCEPT !.queue = Append(@, chunk)]

\* fed and taken are history: the chunks fed by other threads, and the
\* chunks the consumer took from its queue, both in order
ThreadFeed(thread, chunk) ==
    /\ hud.feeds < ThreadMaxFeeds
    /\ hud' = [feed(hud, thread, chunk) EXCEPT
                  !.feeds = @ + 1,
                  !.fed = IF thread # ConsumerThread THEN Append(@, chunk)
                          ELSE @,
                  !.last = [op |-> "feed", emit |-> FALSE, thread |-> thread]]
    /\ UNCHANGED <<procs, mgr, hist, inv>>
    /\ OrchUnchangedBase

\* the event loop of the consumer delivers the oldest queued call
ThreadDeliver ==
    /\ hud.queue # <<>>
    /\ hud' = [on_thread(consume_str(hud, Head(hud.queue)), ConsumerThread)
                  EXCEPT !.queue = Tail(@),
                         !.taken = Append(@, Head(hud.queue)),
                         !.last = [op |-> "deliver", emit |-> FALSE,
                                   thread |-> ConsumerThread]]
    /\ UNCHANGED <<procs, mgr, hist, inv>>
    /\ OrchUnchangedBase

\* reset is called by _consume_str and by the orchestrator's
\* init_hud_stream, both on the GUI thread
ThreadReset(header) ==
    /\ hud.feeds < ThreadMaxFeeds
    /\ hud' = [on_thread(hud_reset(hud, header), ConsumerThread) EXCEPT
                  !.feeds = @ + 1,
                  !.last = [op |-> "reset", emit |-> FALSE,
                            thread |-> ConsumerThread]]
    /\ UNCHANGED <<procs, mgr, hist, inv>>
    /\ OrchUnchangedBase

\* the QTimer of the aggregator fires in its thread
ThreadTick ==
    /\ hud' = [on_thread(flush(hud), ConsumerThread) EXCEPT
                  !.last = [op |-> "tick", emit |-> flush(hud).n # hud.n,
                            thread |-> ConsumerThread]]
    /\ UNCHANGED <<procs, mgr, hist, inv>>
    /\ OrchUnchangedBase

InitThread ==
    /\ InitOrch(0, 0, 1, 0, 0, 0)
    /\ inv = InvInit
    /\ hud = [lines |-> <<>>, cur |-> <<>>, dirty |-> FALSE, out |-> <<>>,
               n |-> 0, queue |-> <<>>, writers |-> {}, feeds |-> 0,
               fed |-> <<>>, taken |-> <<>>,
               last |-> [op |-> "init", emit |-> FALSE,
                         thread |-> ConsumerThread]]

NextThread ==
    \/ \E thread \in Threads, chunk \in ScanChunks : ThreadFeed(thread, chunk)
    \/ ThreadDeliver
    \/ \E header \in Headers : ThreadReset(header)
    \/ ThreadTick

SpecThread == InitThread /\ [][NextThread]_vars

\* ----------------------------------- the kill timeout of an attack
\* attackNetworkByIndex: kill_count = int(deauth_count), raised to 3
broadcast_kill_count(deauth_count) ==
    IF deauth_count < 3 THEN 3 ELSE deauth_count

\* attackClientByIndex: kill_count = int(deauth_count), raised to 5
client_kill_count(deauth_count) ==
    IF deauth_count < 5 THEN 5 ELSE deauth_count

\* the number of seconds in "timeout -s KILL {kill_count}s" of the
\* broadcast command and of the client command built from one setting
BuildBroadcastCmd ==
    /\ inv.state = "deauth" /\ inv.broadcast = NULL
    /\ inv' = [inv EXCEPT !.broadcast = broadcast_kill_count(inv.deauth_count)]
    /\ UNCHANGED <<procs, mgr, hist, hud>>
    /\ OrchUnchangedBase

BuildClientCmd ==
    /\ inv.state = "deauth" /\ inv.client = NULL
    /\ inv' = [inv EXCEPT !.client = client_kill_count(inv.deauth_count)]
    /\ UNCHANGED <<procs, mgr, hist, hud>>
    /\ OrchUnchangedBase

InitKill ==
    /\ InitOrch(0, 0, 1, 0, 0, 0)
    /\ inv \in {[state |-> "deauth", deauth_count |-> n, broadcast |-> NULL,
                  client |-> NULL] : n \in 0..KillMaxCount}
    /\ hud = HudInit

NextKill == BuildBroadcastCmd \/ BuildClientCmd

SpecKill == InitKill /\ [][NextKill]_vars

\* ------------------------------------------------------------- claims
AttackKinds == {"scan", "channel", "broadcast", "client"}

\* handles allocated by the handler of this step
Issued == (Len(procs) + 1)..Len(procs')

\* this step is the completion callback of handle id
Completes(id) ==
    /\ id \in DOMAIN procs
    /\ procs[id].running
    /\ ~procs'[id].running

Pending(ps) == {i \in DOMAIN ps : ps[i].running}

AttackStateUnchanged ==
    UNCHANGED <<allow_attack, wifiState, currentNet, currentClient,
                attackLoop, maxAttackLoop, lastChannel, scannerProc>>

\* C1: once a stop_attack has been handled and until the next scan
\* command, no handler issues a scan, channel-set, broadcast-deauth or
\* client-deauth command, whichever completion callbacks arrive.
C1_NoAttackCommandAfterStop ==
    [][(stopped /\ stopped') =>
          \A i \in Issued : procs'[i].kind \notin AttackKinds]_vars

\* C1 witness: the callback of a scan or attack command issued before the
\* stop_attack has arrived after it, with no scan command in between.
C1_Witness ==
    /\ stopped
    /\ event.id # 0
    /\ event.id <= stopMark
    /\ procs[event.id].kind \in AttackKinds

\* C2: the completion callback of a command that was issued before a
\* stop_attack and arrives after it issues no command and changes no
\* AttackState field, also when a scan command came in between.
C2_LateCallbackIsNoOp ==
    [][\A id \in 1..stopMark :
          Completes(id) => (Issued = {} /\ AttackStateUnchanged)]_vars

\* C3: at most one scan (capture) process is running at any time.
C3_AtMostOneScanRunning ==
    Cardinality({i \in Pending(procs) : procs[i].kind = "scan"}) <= 1

EligibleSeq ==
    [i \in 1..Cardinality(Eligible(Cur)) |->
        (CHOOSE n \in SelectNetwork(Cur, i - 1) : TRUE).bssid]

\* C5: a pass that started at currentNet = 0 and ran on unchanged tables
\* and whitelist has issued a broadcast for exactly the eligible networks
\* (positive channel, not whitelisted), each once, in (channel, bssid)
\* order, when its query returns no row.
C5_PassVisitsEligibleInOrder ==
    passDone.valid => passDone.seq = EligibleSeq

\* C6: a Select network query that finds no row while attackLoop <
\* maxAttackLoop is followed, in the same handler and with no command in
\* between, by a query at index 0 with attackLoop one higher; one that
\* finds no row with attackLoop >= maxAttackLoop ends the handler with a
\* scan command issued, attackLoop = 1 and currentNet = 0.
C6_ExhaustionStepsLoopOrRescans ==
    \A i \in DOMAIN selLog :
        selLog[i].row = NULL =>
            IF selLog[i].loop < selLog[i].max
            THEN /\ i < Len(selLog)
                 /\ selLog[i + 1].loop = selLog[i].loop + 1
                 /\ selLog[i + 1].index = 0
                 /\ selLog[i + 1].nprocs = selLog[i].nprocs
            ELSE /\ i = Len(selLog)
                 /\ attackLoop = 1
                 /\ currentNet = 0
                 /\ Len(procs) = selLog[i].nprocs + 1
                 /\ procs[Len(procs)].kind = "scan"

\* C6 witness: a non-empty pass ran out of networks at the loop limit and
\* the handler issued the rescan.
C6_Witness ==
    /\ selLog # <<>>
    /\ selLog[Len(selLog)].row = NULL
    /\ selLog[Len(selLog)].index > 0
    /\ selLog[Len(selLog)].loop >= 2
    /\ procs[Len(procs)].kind = "scan"

\* C7: attackLoop = 1 in the state in which a scan command has just been
\* issued, and attackLoop = 1 when the completion callback of a scan
\* starts.
C7_LoopCountOneAtScan ==
    /\ \A i \in (event.n0 + 1)..Len(procs) :
          procs[i].kind = "scan" => attackLoop = 1
    /\ event.kind = "scan_finished" => event.loop0 = 1

\* C8: the first Select network query after a scan completed and its
\* results were imported is made at currentNet = 0.
C8_FirstQueryAtIndexZero ==
    (event.kind = "scan_finished" /\ selLog # <<>>) => selLog[1].index = 0

\* C9: lastChannel changes only in the completion callback of a
\* channel-set command.
C9_LastChannelChangesOnCompletion ==
    [][lastChannel' # lastChannel =>
          \E id \in DOMAIN procs :
              Completes(id) /\ procs[id].kind = "channel"]_vars

\* C10: a Select network query that finds a network on lastChannel issues
\* the broadcast command for it and no channel-set command; one that
\* finds a network on another channel issues exactly one channel-set
\* command for that channel, and the broadcast command for that network
\* is not issued while that channel-set command is still pending.
C10_ChannelSetBeforeBroadcast ==
    [][/\ (selLog' # <<>> /\ selLog'[Len(selLog')].row # NULL) =>
            LET e == selLog'[Len(selLog')]
                h == procs'[Len(procs')]
            IN  /\ Cardinality(Issued) = 1
                /\ IF e.channel = e.last
                   THEN h.kind = "broadcast" /\ h.bssid = e.row
                   ELSE h.kind = "channel" /\ h.channel = e.channel
       /\ \A i \in Issued :
            procs'[i].kind = "broadcast" =>
                ~\E j \in Pending(procs') :
                    /\ procs'[j].kind = "channel"
                    /\ procs'[j].bssid = procs'[i].bssid]_vars

\* the bssids of a set of networks in ascending order
SortedBssids(nets) ==
    LET bs == {n.bssid : n \in nets}
    IN  [i \in 1..Cardinality(bs) |->
            CHOOSE b \in bs : Cardinality({x \in bs : x < b}) = i - 1]

\* what a handle runs: the command and its target
Cmd(h) ==
    [kind |-> h.kind,
     bssid |-> IF h.kind = "broadcast" THEN h.bssid ELSE NULL,
     channel |-> h.channel]

\* the frontend has sent one scan command and nothing else, and the
\* capture holds only networks on one positive channel, no clients, with
\* an empty whitelist
C11_Scenario ==
    /\ cmds = 1
    /\ ~stopped
    /\ whitelist = {}
    /\ air.clients = {}
    /\ air.networks # {}
    /\ \A m, n \in air.networks : m.channel = n.channel /\ n.channel > 0

\* channel-set(c), cfgMaxLoop rounds of broadcasts in bssid order, rescan
C11_Expected ==
    LET c  == (CHOOSE n \in air.networks : TRUE).channel
        bs == SortedBssids(air.networks)
        k  == Len(bs)
    IN  <<[kind |-> "channel", bssid |-> NULL, channel |-> c]>>
        \o [i \in 1..(k * cfgMaxLoop) |->
              [kind |-> "broadcast", bssid |-> bs[((i - 1) % k) + 1],
               channel |-> c]]
        \o <<[kind |-> "scan", bssid |-> NULL, channel |-> 0]>>

C12_UnsetChannelNeverAttacked ==
    /\ \A i \in DOMAIN selLog :
          selLog[i].row # NULL => selLog[i].channel # -1
    /\ \A i \in DOMAIN procs :
          procs[i].kind \in {"channel", "broadcast", "client"} =>
              /\ procs[i].channel # -1
              /\ \A n \in air.networks :
                    n.bssid = procs[i].bssid => n.channel # -1

\* C12 witness: the imported table holds a network with channel -1 and the
\* handler of the scan completion has queried the table.
C12_Witness ==
    /\ \E n \in networks : n.channel = -1
    /\ event.kind = "scan_finished"
    /\ selLog # <<>>

\* C13: every Select network query excludes the bssids that are on the
\* whitelist at the time of the query: once a bssid has been saved to the
\* whitelist no query of a later handler returns it, also in the middle
\* of a pass and with no rescan in between.
C13_QueryExcludesWhitelist ==
    \A i \in DOMAIN selLog : selLog[i].row \notin whitelist

\* C13 witness: a network was put on the whitelist while its broadcast was
\* running, and the completion callback of that broadcast has made the
\* next queries.
C13_Witness ==
    /\ event.kind = "attack_finished"
    /\ procs[event.id].bssid \in whitelist
    /\ selLog # <<>>

\* C14: when the handling of a stop_attack command ends, cancellation is
\* requested (allow_attack = False), in whatever state the command was
\* received.
C14_StopAlwaysCancels ==
    event.kind = "stop_attack" => allow_attack = FALSE

\* C15: when the handling of a stop_attack command ends, every scan
\* process that is still running has been sent a kill.
C15_StopKillsEveryScan ==
    event.kind = "stop_attack" =>
        \A i \in Pending(procs) : procs[i].kind = "scan" => procs[i].killed

\* C16 as stated: when the handling of a stop_attack ends, every handle
\* that was issued before it and is still running has been sent a kill.
C16_StopSignalsEveryRunning ==
    event.kind = "stop_attack" =>
        \A i \in 1..event.n0 : procs[i].running => procs[i].killed

\* C16 amended: stop_attack does not kill all: its handler sends a kill to
\* the capture process recorded in scannerProc if that is still running,
\* and to no other handle; no other handler sends a kill, and a finished
\* handle is never signalled.
C16_StopKillsOnlyRecordedScan ==
    [][/\ \A i \in DOMAIN procs :
            (procs'[i].killed /\ ~procs[i].killed) =>
                /\ cmds' = cmds + 1
                /\ event'.kind = "stop_attack"
                /\ i = scannerProc
                /\ procs[i].kind = "scan"
                /\ procs[i].running
       /\ (cmds' = cmds + 1 /\ event'.kind = "stop_attack"
             /\ scannerProc # NULL /\ procs[scannerProc].running) =>
                procs'[scannerProc].killed]_vars

\* C16 witness: a stop_attack has been handled while a channel-set or
\* deauthentication command was running, and that command got no kill.
C16_Witness ==
    /\ event.kind = "stop_attack"
    /\ \E i \in 1..event.n0 :
          /\ procs[i].kind \in {"channel", "broadcast", "client"}
          /\ procs[i].running
          /\ ~procs[i].killed

\* C17: for every handle whose process has ended (normal exit, death by
\* a signal such as kill, or failure to start), exactly one terminal
\* callback, on_finished or on_error, has been invoked.
C17_ExactlyOneTerminalCallback ==
    \A id \in DOMAIN procs :
        mgr.how[id] # "none" => mgr.fin[id] + mgr.err[id] = 1

\* C18: when the process of a handle could not be started, the failure
\* has been delivered through on_finished, so that a caller that passed
\* only on_finished has received its completion event.
C18_SpawnFailureReachesOnFinished ==
    \A id \in DOMAIN procs :
        mgr.how[id] = "failed" => mgr.fin[id] = 1

\* C19: kill(id) and terminate(id) return success exactly when the id is
\* known and its process was running when the call was made (the signal
\* reached a running process), and failure otherwise.
C19_SignalOnlyWhenRunning ==
    mgr.last.op \in {"kill", "terminate"} =>
        mgr.last.ret = mgr.last.running0

\* C20: the ids returned by run are strictly increasing, and get(id)
\* returns the handle registered under id for exactly the ids that run
\* has returned, while the process runs and after it has ended, and None
\* for every other id.
C20_FreshIdsAndLookup ==
    /\ \A i, j \in DOMAIN mgr.log : i < j => mgr.log[i] < mgr.log[j]
    /\ mgr.last.op = "get" =>
          mgr.last.got =
              IF \E i \in DOMAIN mgr.log : mgr.log[i] = mgr.last.id
              THEN {procs[mgr.last.id]}
              ELSE {}

\* C20 witness: run has returned two ids and get has just returned the
\* handle of the first one after its process ended.
C20_Witness ==
    /\ Len(mgr.log) >= 2
    /\ mgr.last.op = "get"
    /\ mgr.last.id = mgr.log[1]
    /\ ~mgr.last.running0
    /\ mgr.last.got # {}

\* C21: for every request, when elevation is requested the invocation that
\* is started executes the request's command exactly once, inside exactly
\* one elevation wrapper (pkexec or sudo), and executes nothing else but the
\* echo that pipes the credential; when elevation is not requested the
\* command is executed with no wrapper around it.
InvExecutes ==
    Executes(<<inv.out.program>> \o inv.out.args, <<>>, inv.req, ExecDepth)

C21_ElevationWrapsExactlyOnce ==
    inv.state = "built" /\ ~inv.out.raised =>
        LET req  == inv.req
            runs == {e \in InvExecutes : e.what = "command"}
        IN  /\ Cardinality(runs) = 1
            /\ \A e \in runs :
                  IF req.elevate THEN e.wrap \in Wrappers ELSE e.wrap = <<>>
            /\ \A e \in InvExecutes \ runs :
                  /\ req.elevate
                  /\ req.sudo_password.some
                  /\ e.wrap = <<>>
                  /\ e.argv = <<(<<"echo">>), req.sudo_password.text>>

C21_Witness ==
    /\ inv.state = "built"
    /\ inv.req.elevate
    /\ ~inv.req.shell
    /\ inv.req.method = <<"S", "U", "D", "O">>
    /\ inv.req.sudo_password = Password(<<"p", SQ, "w">>)
    /\ inv.req.cmd_str = <<"ls", ";", "rm">>
    /\ inv.out.program = <<"bash">>
    /\ \E e \in InvExecutes : e.what = "command" /\ e.wrap = <<"sudo">>

\* the chunk consumed by a step that feeds the aggregator
HudFeedStep ==
    /\ Len(hud'.log) = Len(hud.log) + 1
    /\ hud'.log[Len(hud'.log)].op = "feed"

HudFedChunk == hud'.log[Len(hud'.log)].text

HudTickStep == hud'.last.op = "tick" /\ hud'.log = hud.log

LastIndexOf(t, c) ==
    LET at == {i \in 1..Len(t) : t[i] = c}
    IN  IF at = {} THEN 0 ELSE CHOOSE i \in at : \A j \in at : j <= i

\* C22: a carriage return discards the characters of the in-progress line
\* and neither finalizes a line nor changes the finalized lines (a chunk
\* with a carriage return and no line feed leaves the finalized lines as
\* they were and the in-progress line holds the characters after the last
\* carriage return); and feeding "CH 1 ...\nrow\rrow2\n" to an empty
\* aggregator makes the next tick emit the two lines "CH 1 ..." and "row2".
C22_Expected ==
    <<"C", "H", " ", "1", " ", ".", ".", ".", LF, "r", "o", "w", "2">>

C22_CarriageReturnOverwrites ==
    [][ /\ ( /\ HudFeedStep
             /\ LastIndexOf(HudFedChunk, CR) # 0
             /\ LastIndexOf(HudFedChunk, LF) = 0
             /\ LastIndexOf(HudFedChunk, ESC) = 0 )
           => /\ hud'.lines = hud.lines
              /\ hud'.cur = SubSeq(HudFedChunk,
                                   LastIndexOf(HudFedChunk, CR) + 1,
                                   Len(HudFedChunk))
        /\ ( /\ HudTickStep
             /\ hud.log = <<[op |-> "feed", text |-> ExampleChunk]>>
             /\ hud.last.op = "feed" )
           => /\ hud'.last.emit
              /\ hud'.out = C22_Expected
              /\ hud'.lines = << <<"C", "H", " ", "1", " ", ".", ".", ".">>,
                                 <<"r", "o", "w", "2">> >>
      ]_vars

C22_Witness ==
    /\ hud.log = <<[op |-> "feed", text |-> ExampleChunk]>>
    /\ hud.last = [op |-> "tick", emit |-> TRUE]
    /\ hud.n = 1
    /\ hud.out = C22_Expected

\* the 1-based positions of t at which the frame-start marker "CH " occurs
\* when case is ignored
MarkerAt(t) ==
    {p \in 1..(Len(t) - 2) :
        /\ upper_char(t[p]) = <<"C">>
        /\ upper_char(t[p + 1]) = <<"H">>
        /\ t[p + 2] = " "}

\* C23: when a line feed finalizes a line that contains the frame-start
\* marker (case-insensitive) at any position, the buffer afterwards holds
\* exactly one line, the finalized line from the first occurrence of the
\* marker onward; a finalized line without the marker is appended, the
\* earlier lines staying in place (up to the maximum line count).
C23_MarkerLineStartsFrame ==
    [][ (HudFeedStep /\ HudFedChunk = <<LF>>) =>
          LET raw == hud.cur
              p   == CHOOSE p \in MarkerAt(raw) :
                        \A q \in MarkerAt(raw) : p <= q
          IN  /\ hud'.cur = <<>>
              /\ IF MarkerAt(raw) # {}
                 THEN hud'.lines = <<SubSeq(raw, p, Len(raw))>>
                 ELSE hud'.lines = deque_append(hud.lines, raw)
      ]_vars

\* C24: when a fed chunk contains a clear-screen or cursor-home sequence
\* anywhere in it, the finalized lines and the in-progress line of earlier
\* chunks are discarded before any character of the chunk is ingested, and
\* the text of the chunk without its control sequences is ingested into
\* the emptied buffer: the buffer afterwards is what that text alone gives.
HudEmptied == [hud EXCEPT !.lines = <<>>, !.cur = <<>>]

C24_ClearDiscardsBeforeIngest ==
    [][ (HudFeedStep /\ has_clear_or_home(HudFedChunk)) =>
          LET alone == ingest(HudEmptied, strip_ansi(HudFedChunk, 1))
          IN  /\ hud'.lines = alone.lines
              /\ hud'.cur = alone.cur
              /\ \A i \in 1..Len(hud'.cur) : hud'.cur[i] \notin {ESC, "["}
      ]_vars

C24_Witness ==
    /\ Len(hud.log) = 3
    /\ hud.log[1] = [op |-> "feed", text |-> <<"y", LF>>]
    /\ hud.log[2] = [op |-> "feed", text |-> <<"x">>]
    /\ hud.log[3] = [op |-> "feed",
                     text |-> <<"x", LF, ESC, "[", "J", "y">>]
    /\ hud.last.op = "feed"
    /\ hud.lines = << <<"x">> >>
    /\ hud.cur = <<"y">>

\* C25: a timer tick emits a snapshot if and only if a chunk was ingested
\* or reset was called since the previous emission; the snapshot is the
\* finalized lines followed by the in-progress line when it is not empty,
\* joined by newlines; a tick that follows a tick emits nothing.
HudSnapshot ==
    join(hud.lines \o (IF hud.cur = <<>> THEN <<>> ELSE <<hud.cur>>), <<LF>>)

C25_TickEmitsIffIngested ==
    [][ HudTickStep =>
          /\ hud'.last.emit <=> hud.since
          /\ IF hud.since
             THEN hud'.n = hud.n + 1 /\ hud'.out = HudSnapshot
             ELSE hud'.n = hud.n /\ hud'.out = hud.out
          /\ hud.last.op = "tick" => ~hud'.last.emit
          /\ hud'.lines = hud.lines /\ hud'.cur = hud.cur
      ]_vars

C25_Witness ==
    /\ hud.last = [op |-> "tick", emit |-> FALSE]
    /\ hud.n = 2
    /\ ~hud.since
    /\ Len(hud.lines) = 1
    /\ hud.cur # <<>>
    /\ hud.out = HudSnapshot
    /\ hud.log[Len(hud.log)] = [op |-> "feed", text |-> <<ESC, "[", "1", "m", "y">>]

\* the handler of this step ended in a Select network query that found no
\* row with attackLoop >= maxAttackLoop
ExhaustedAtLimit ==
    /\ selLog # <<>>
    /\ selLog[Len(selLog)].row = NULL
    /\ selLog[Len(selLog)].loop >= selLog[Len(selLog)].max

\* C26 as stated: when Select network finds no row at the loop limit, the
\* handler issues a monitor-mode command (and no scan command, which waits
\* for the completion callback of the mode-set).
C26_RestartIssuesModeSet ==
    ExhaustedAtLimit =>
        /\ Len(procs) = selLog[Len(selLog)].nprocs + 1
        /\ procs[Len(procs)].kind = "mode"
        /\ procs[Len(procs)].mode = "Monitor"

\* C26 amended: when Select network finds no row at the loop limit, the
\* handler issues the next scan command itself, and nothing else: no
\* mode-set command is issued, wifiState is left as it is and scannerProc
\* is the new scan.
C26_RestartIssuesScanDirectly ==
    [][ ExhaustedAtLimit' =>
          /\ Len(procs') = Len(procs) + 1
          /\ procs'[Len(procs')].kind = "scan"
          /\ procs'[Len(procs')].running
          /\ scannerProc' = Len(procs')
          /\ wifiState' = wifiState
      ]_vars

C26_Witness ==
    /\ ExhaustedAtLimit
    /\ event.kind \in {"attack_finished", "client_attack_finished"}
    /\ wifiState = "Monitor"
    /\ scannerProc = Len(procs)
    /\ procs[scannerProc].kind = "scan"
    /\ \A i \in DOMAIN procs : procs[i].kind = "mode" => ~procs[i].running

\* A step in which the completion callback of a broadcast or client
\* command runs past its cancellation check; the handle it completes, the
\* network visited, the broadcast handle that opened the visit, and the
\* client commands issued in the visit before this step.
ClientSelectStep ==
    /\ event'.kind \in {"attack_finished", "client_attack_finished"}
    /\ allow_attack

VisitBssid == procs[event'.id].bssid

VisitStart ==
    LET bs == {k \in 1..event'.id :
                 procs[k].kind = "broadcast" /\ procs[k].bssid = VisitBssid}
    IN  CHOOSE k \in bs : \A j \in bs : j <= k

VisitClientHandles ==
    {i \in VisitStart..Len(procs) :
        procs[i].kind = "client" /\ procs[i].bssid = VisitBssid}

VisitAttacked == {procs[i].client : i \in VisitClientHandles}

Associated(bssid) ==
    {c.client_bssid : c \in {d \in clients : d.associated_network = bssid}}

\* C27: in the visit of a network the callback of its broadcast and of each
\* client command issues one client command for an associated client not
\* yet attacked in the visit (the first one in query order), leaving
\* currentNet alone; only when every associated client has been attacked
\* exactly once does it advance currentNet by exactly 1 and select the next
\* network.
C27_ClientsOncePerVisit ==
    [][ ClientSelectStep =>
          LET rest == Associated(VisitBssid) \ VisitAttacked
          IN  /\ Cardinality(VisitClientHandles) = Cardinality(VisitAttacked)
              /\ VisitAttacked \subseteq Associated(VisitBssid)
              /\ IF rest = {}
                 THEN /\ selLog' # <<>>
                      /\ selLog'[1].index = currentNet + 1
                      /\ \A i \in (Len(procs) + 1)..Len(procs') :
                            procs'[i].kind # "client"
                 ELSE /\ selLog' = <<>>
                      /\ currentNet' = currentNet
                      /\ Len(procs') = Len(procs) + 1
                      /\ procs'[Len(procs')].kind = "client"
                      /\ procs'[Len(procs')].bssid = VisitBssid
                      /\ procs'[Len(procs')].client \in rest
                      /\ \A c \in rest : procs'[Len(procs')].client <= c
      ]_vars

\* the handles issued by the handler of this step
NewHandles == (Len(procs) + 1)..Len(procs')

\* C28: a client command is issued only for a client row whose associated
\* network is not NULL and is the bssid the command names, and that bssid
\* is the network whose broadcast command completed most recently.
C28_ClientOfLastBroadcast ==
    [][ \A i \in NewHandles :
          procs'[i].kind = "client" =>
            /\ procs'[i].bssid # NULL
            /\ \E c \in clients' :
                  /\ c.client_bssid = procs'[i].client
                  /\ c.associated_network = procs'[i].bssid
            /\ procs'[i].bssid = hist'.lastDone
      ]_vars

\* C29: no deauthentication command, broadcast or client, is issued that
\* names a bssid which is in the whitelist when the command is issued.
C29_NoDeauthOfWhitelisted ==
    [][ \A i \in NewHandles :
          procs'[i].kind \in {"broadcast", "client"} =>
            procs'[i].bssid \notin whitelist
      ]_vars

\* C30: when a broadcast or client command is issued for a network, a
\* channel-set command for the channel of that network has completed since
\* the last scan command and the last mode-set command were issued, and no
\* channel-set command for another channel has been issued after it.
C30_ChannelSetSinceScan ==
    [][ \A i \in NewHandles :
          procs'[i].kind \in {"broadcast", "client"} =>
            hist'.tuned = procs'[i].channel
      ]_vars

\* C31: whenever no mode-set command is pending, wifiState is the target
\* mode of the mode-set command that completed last.
C31_ModeMatchesLastCompleted ==
    ( /\ hist.modeDone # "none"
      /\ \A i \in DOMAIN procs : procs[i].kind = "mode" => ~procs[i].running )
    => wifiState = hist.modeDone

RECURSIVE NoRepeat(_)
NoRepeat(seq) ==
    \/ seq = <<>>
    \/ /\ \A i \in 2..Len(seq) : seq[i] # seq[1]
       /\ NoRepeat(Tail(seq))

\* C32: in a pass no network gets two broadcast commands, and when the
\* pass ends (its Select network query returns no row) every network that
\* was eligible during the whole pass has got its broadcast command,
\* whatever changes the whitelist went through between the queries.
C32_WhitelistEditKeepsPass ==
    [][ /\ NoRepeat(pass'.seq)
        /\ (selLog' # <<>> /\ selLog'[1].row = NULL) =>
              hist.stable \subseteq {pass.seq[i] : i \in DOMAIN pass.seq}
      ]_vars

ScanHandles == {i \in DOMAIN procs : procs[i].kind = "scan"}

\* an active cycle: a scan command was received and no stop_attack since
ActiveCycle == cmds > 0 /\ allow_attack /\ wifiState = "Monitor"

\* C33 (safety part): in an active cycle some command is pending.
C33_NoStall == ActiveCycle => Pending(procs) # {}

\* a capture (scan) command is pending
Scanning == \E i \in Pending(procs) : procs[i].kind = "scan"

IssuedByLast == (event.n0 + 1)..Len(procs)

HudIsReset ==
    /\ hud.cur = <<>>
    /\ \/ hud.lines = <<>>
       \/ \E header \in Headers \ {<<>>} :
             hud.lines = <<rstrip_newline(header)>>

\* C35: when a capture (scan) command is issued the aggregator has just
\* been reset: it holds no finalized line and no in-progress text of the
\* output of an earlier capture.
C35_ResetBeforeScan ==
    [][ (\E i \in NewHandles : procs'[i].kind = "scan") => HudIsReset' ]_vars

\* this step handles a stop_attack command
StopStep == event'.kind = "stop_attack" /\ cmds' = cmds + 1

\* C36: a stop_attack handled in an active cycle (allow_attack set,
\* wifiState Monitor) issues exactly one command, the mode-set to Managed,
\* and sets wifiState to Managed; a stop_attack handled after it and
\* before the next scan command issues no command.
C36_StopIssuesOneModeSet ==
    [][ StopStep =>
          /\ (allow_attack /\ wifiState = "Monitor") =>
                /\ Len(procs') = Len(procs) + 1
                /\ procs'[Len(procs')].kind = "mode"
                /\ procs'[Len(procs')].mode = "Managed"
                /\ wifiState' = "Managed"
          /\ stopped => Len(procs') = Len(procs)
      ]_vars

\* a second stop_attack was handled after one that issued the mode-set
C36_Witness ==
    /\ event.kind = "stop_attack"
    /\ stopMark = Len(procs)
    /\ \E i \in DOMAIN procs :
          /\ procs[i].kind = "mode" /\ procs[i].mode = "Managed"
          /\ \E j \in DOMAIN procs : j < i /\ procs[j].kind = "scan"
    /\ cmds = 3

max(a, b) == IF a >= b THEN a ELSE b

\* C37: the kill timeouts of the broadcast command and of the client
\* command built from one deauth_count are both max(deauth_count, F) for
\* one and the same floor F.
C37_SameTimeoutFloor ==
    (inv.state = "deauth" /\ inv.broadcast # NULL /\ inv.client # NULL) =>
        \E F \in 0..KillMaxCount :
            /\ inv.broadcast = max(inv.deauth_count, F)
            /\ inv.client = max(inv.deauth_count, F)

\* the AttackState values and the commands issued so far
AttackState ==
    [allow_attack |-> allow_attack, wifiState |-> wifiState,
     currentNet |-> currentNet, currentClient |-> currentClient,
     attackLoop |-> attackLoop, maxAttackLoop |-> maxAttackLoop,
     lastChannel |-> lastChannel, scannerProc |-> scannerProc,
     procs |-> procs]

\* what the completion of handle id would leave had it reported `code`
AfterExitCode(id, code) ==
    LET r == on_finished(Exited(Cur, id), id, code, air)
    IN  [allow_attack |-> r.allow_attack, wifiState |-> r.wifiState,
         currentNet |-> r.currentNet, currentClient |-> r.currentClient,
         attackLoop |-> r.attackLoop, maxAttackLoop |-> r.maxAttackLoop,
         lastChannel |-> r.lastChannel, scannerProc |-> r.scannerProc,
         procs |-> r.procs]

\* C38: the step taken at the completion of a command is the same for
\* every exit code: whatever code is reported, the commands issued and the
\* AttackState values after the callback are those of any other code, so
\* two runs that differ only in exit codes go through the same states.
C38_ExitCodeIgnored ==
    [][ \A id \in DOMAIN procs :
          Completes(id) =>
            \A code \in ExitCodes : AttackState' = AfterExitCode(id, code)
      ]_vars

\* a capture that ended with a non-zero code was followed by an attack
C38_Witness ==
    /\ event.kind = "scan_finished"
    /\ event.code = 137
    /\ \E i \in IssuedByLast : procs[i].kind \in {"channel", "broadcast"}

\* a fed chunk that ends one plain line: no control sequence, no carriage
\* return, one line feed, at its end
EndsOneLine(chunk) ==
    /\ chunk # <<>>
    /\ chunk[Len(chunk)] = LF
    /\ \A i \in 1..(Len(chunk) - 1) : chunk[i] \notin {LF, CR, ESC}

\* the line such a chunk finalizes
FinalizedBy(chunk) == hud.cur \o SubSeq(chunk, 1, Len(chunk) - 1)

\* C39: the aggregator never holds more than max_lines finalized lines,
\* whatever feeds, resets and ticks it went through; a line finalized
\* while the buffer is full (and that starts no new frame) takes the last
\* place, the oldest line is dropped and the other lines keep their order.
C39_LinesBounded ==
    /\ Len(hud.lines) <= HudMaxLines
    /\ [][ /\ Len(hud'.lines) <= HudMaxLines
           /\ ( /\ HudFeedStep
                /\ EndsOneLine(HudFedChunk)
                /\ find(upper(FinalizedBy(HudFedChunk)), <<"C", "H", " ">>) = -1
                /\ Len(hud.lines) = HudMaxLines )
              => hud'.lines =
                    Append(Tail(hud.lines), FinalizedBy(HudFedChunk))
         ]_vars

C39_Witness ==
    /\ hud.log = << [op |-> "feed", text |-> <<LF>>],
                    [op |-> "feed", text |-> <<"y", LF>>],
                    [op |-> "feed", text |-> <<LF>>] >>
    /\ hud.lines = << <<"y">>, <<>> >>

\* C40: a feed from a thread other than the consumer context changes
\* nothing of the line buffer in place: every ingestion, reset and emission
\* has run on the consumer context (where they run one at a time), and the
\* chunks fed from other threads are queued and taken in the order fed.
C40_FeedIsMarshaled ==
    /\ hud.writers \subseteq {ConsumerThread}
    /\ hud.taken \o hud.queue = hud.fed

\* two chunks fed by the worker were ingested, with a tick in between
C40_Witness ==
    /\ Len(hud.taken) = 2
    /\ hud.taken[1] # hud.taken[2]
    /\ hud.n > 0
    /\ hud.last.op = "deliver"

====
